---------------------------- MODULE Spec2Model ----------------------------
(***************************************************************************)
(* State-machine model of src-tauri/src/lib.rs: the shared session slot    *)
(* (AppState.session), the persisted session file (session.json) and the   *)
(* Tauri commands login, try_restore_session, get_student_info,            *)
(* get_grades, get_grade_stats and logout.                                 *)
(*                                                                         *)
(* A command is a process: its position (pc) is the await point it is      *)
(* suspended at, or the shared access it is about to make.  One action is  *)
(* the code a command runs between two such points.  The remote servers    *)
(* and the file system are the environment: every response and every       *)
(* write outcome is drawn nondeterministically.                            *)
(***************************************************************************)
EXTENDS Naturals, Sequences, FiniteSets, TLC

\* ------------------------------------------------------------- bounds

\* Number of distinct security tokens the portal may hand out.
NumTokens == 2

\* Number of cookie names a jar under test may hold.
NumCookies == 3

\* Nesting of containers around the shallow JSON values find_profile_id is
\* run on.
MaxDepth == 2

\* The command invocations that may be in flight at once.
Procs == {"c1", "c2"}

\* ------------------------------------------------------ program constants

SSO_URL == "https://sso.uom.gr/login"
PORTAL_URL == "https://sis-portal.uom.gr"
SERVICE_URL == "https://sis-portal.uom.gr/login/cas"
SSO_HOST == "sso.uom.gr"
PORTAL_HOST == "sis-portal.uom.gr"

\* ------------------------------------------------------------ options

\* Option<T>: None is the empty sequence, Some(x) the one-element sequence.
None == <<>>
Some(x) == <<x>>
IsSome(o) == o # <<>>
Unwrap(o) == o[1]

\* Result<T, String>
Ok(v) == [tag |-> "Ok", value |-> v]
Err(e) == [tag |-> "Err", error |-> e]
NoResult == [tag |-> "None"]
IsOk(r) == r.tag = "Ok"
IsErr(r) == r.tag = "Err"

\* ------------------------------------------------------------ JSON values

JNull == [k |-> "null"]
JBool(b) == [k |-> "bool", b |-> b]
JNum(n) == [k |-> "num", n |-> n]
JStr(s) == [k |-> "str", s |-> s]
\* An array is the sequence of its elements; an object the sequence of its
\* <<key, value>> members in the order map.values() visits them.
JArr(elems) == [k |-> "arr", elems |-> elems]
JObj(members) == [k |-> "obj", members |-> members]

Digits == <<"0", "1", "2", "3", "4", "5", "6", "7", "8", "9">>

\* Number::to_string for the non-negative integers the model uses.
RECURSIVE NumToString(_)
NumToString(n) ==
    IF n < 10 THEN Digits[n + 1]
    ELSE NumToString(n \div 10) \o Digits[(n % 10) + 1]

\* Value::get("id"): the member named key of an object, None for any other
\* kind of value or when the object has no such member.
JsonGet(value, key) ==
    IF value.k # "obj" THEN None
    ELSE LET hits == {i \in 1..Len(value.members) : value.members[i][1] = key}
         IN IF hits = {} THEN None
            ELSE Some(value.members[CHOOSE i \in hits : TRUE][2])

extract_id(v) ==
    LET id == JsonGet(v, "id")
    IN IF ~IsSome(id) THEN None
       ELSE CASE Unwrap(id).k = "str" -> Some(Unwrap(id).s)
              [] Unwrap(id).k = "num" -> Some(NumToString(Unwrap(id).n))
              [] OTHER -> None

RECURSIVE find_profile_id_deep(_)
\* A search that also recurses into the first element of an array.
find_profile_id_deep(value) ==
    CASE value.k = "obj" ->
           LET hits == {i \in 1..Len(value.members) :
                          IsSome(find_profile_id_deep(value.members[i][2]))}
           IN IF hits # {}
              THEN find_profile_id_deep(
                      value.members[CHOOSE i \in hits : \A j \in hits : i <= j][2])
              ELSE extract_id(value)
      [] value.k = "arr" ->
           IF Len(value.elems) = 0 THEN None
           ELSE LET r == find_profile_id_deep(value.elems[1])
                IN IF IsSome(r) THEN r ELSE extract_id(value.elems[1])
      [] OTHER -> None

RECURSIVE find_profile_id(_)
RECURSIVE FirstFound(_, _)
\* The for loop of find_profile_id over map.values(): the first member value
\* whose search yields an id.
FirstFound(members, i) ==
    IF i > Len(members) THEN None
    ELSE LET r == find_profile_id(members[i][2])
         IN IF IsSome(r) THEN r ELSE FirstFound(members, i + 1)

find_profile_id(value) ==
    CASE value.k = "obj" ->
           LET r == FirstFound(value.members, 1)
           IN IF IsSome(r) THEN r ELSE extract_id(value)
      [] value.k = "arr" ->
           IF Len(value.elems) = 0 THEN None ELSE extract_id(value.elems[1])
      [] OTHER -> None


\* ------------------------------------------------------------ HTML pages

\* A parsed document is the sequence of its elements in document order; an
\* element has a tag, a name attribute and, optionally, the attribute the
\* extractors read (value of an input, content of a meta).
Element(tag, name, attr) == [tag |-> tag, name |-> name, attr |-> attr]

\* doc.select(selector).next(): the first element with that tag and name.
SelectFirst(doc, tag, name) ==
    LET hits == {i \in 1..Len(doc) : doc[i].tag = tag /\ doc[i].name = name}
    IN IF hits = {} THEN None
       ELSE Some(doc[CHOOSE i \in hits : \A j \in hits : i <= j])

\* .and_then(|el| el.value().attr(..)): the attribute of the first match.
FirstAttr(doc, tag, name) ==
    LET el == SelectFirst(doc, tag, name)
    IN IF IsSome(el) THEN Unwrap(el).attr ELSE None

extract_cas_tokens(html) ==
    LET execution == FirstAttr(html, "input", "execution")
        lt == FirstAttr(html, "input", "lt")
    IN IF ~IsSome(execution) THEN Err("CAS execution token not found")
       ELSE Ok([execution |-> Unwrap(execution), lt |-> lt])

extract_csrf(html) ==
    LET content == FirstAttr(html, "meta", "_csrf")
    IN IF IsSome(content) THEN Ok(Unwrap(content))
       ELSE Err("CSRF token not found")

\* ------------------------------------------------------------ cookies

\* A text (a cookie name or value, a Cookie header string, a Set-Cookie
\* string) is the sequence of its atoms: "=", ";" and " " are atoms of
\* their own and a run of other characters is one atom.  The empty string
\* is the empty sequence.
\*
\* A jar holds the cookies of the portal origin as a set of <<name, value>>
\* pairs of texts with distinct names.
EmptyJar == {}

\* The first position of atom in text, 0 when there is none.
IndexOf(text, atom) ==
    LET hits == {i \in 1..Len(text) : text[i] = atom}
    IN IF hits = {} THEN 0 ELSE CHOOSE i \in hits : \A k \in hits : i <= k

RECURSIVE Trim(_)
\* str::trim
Trim(text) ==
    IF text = <<>> THEN text
    ELSE IF Head(text) = " " THEN Trim(Tail(text))
    ELSE IF text[Len(text)] = " " THEN Trim(SubSeq(text, 1, Len(text) - 1))
    ELSE text

\* The last position of atom in text, 0 when there is none.
LastIndexOf(text, atom) ==
    LET hits == {i \in 1..Len(text) : text[i] = atom}
    IN IF hits = {} THEN 0 ELSE CHOOSE i \in hits : \A k \in hits : i >= k

\* A parse that takes the value to start after the last "=".
ParseSetCookieAtLastEq(text) ==
    LET semi == IndexOf(text, ";")
        pair == IF semi = 0 THEN text ELSE SubSeq(text, 1, semi - 1)
        eq == LastIndexOf(pair, "=")
    IN IF eq = 0 THEN None
       ELSE LET name == Trim(SubSeq(pair, 1, eq - 1))
                value == Trim(SubSeq(pair, eq + 1, Len(pair)))
            IN IF name = <<>> THEN None ELSE Some(<<name, value>>)

\* Cookie::parse of a Set-Cookie string: the name and the value are what
\* stands before the first ";", split at the first "=" and trimmed; the
\* rest are attributes.  No "=" or an empty name is a parse error.
ParseSetCookie(text) ==
    LET semi == IndexOf(text, ";")
        pair == IF semi = 0 THEN text ELSE SubSeq(text, 1, semi - 1)
        eq == IndexOf(pair, "=")
    IN IF eq = 0 THEN None
       ELSE LET name == Trim(SubSeq(pair, 1, eq - 1))
                value == Trim(SubSeq(pair, eq + 1, Len(pair)))
            IN IF name = <<>> THEN None ELSE Some(<<name, value>>)

\* format!("{part}; Domain=sis-portal.uom.gr; Path=/")
SetCookieString(part) ==
    part \o <<";", " ", "Domain", "=", PORTAL_HOST, ";", " ", "Path", "=", "/">>

\* The jar stores a cookie: one of the same name, domain and path is
\* replaced.
AddCookie(jar, part) == {c \in jar : c[1] # part[1]} \cup {part}

\* jar.add_cookie_str(set_cookie, url): a string that does not parse is
\* ignored.
add_cookie_str(jar, set_cookie) ==
    LET c == ParseSetCookie(set_cookie)
    IN IF IsSome(c) THEN AddCookie(jar, Unwrap(c)) ELSE jar

\* "name=value" as the jar renders one cookie.
CookiePair(c) == c[1] \o <<"=">> \o c[2]

RECURSIVE CookieHeader(_)
\* jar.cookies(&portal_url) rendered as a header string: the pairs joined
\* by "; ", in no particular order, and "" when the jar holds no cookie
\* for the origin (unwrap_or_default).
CookieHeader(jar) ==
    IF jar = {} THEN <<>>
    ELSE LET c == CHOOSE x \in jar : TRUE
             rest == CookieHeader(jar \ {c})
         IN IF jar = {c} THEN CookiePair(c)
            ELSE CookiePair(c) \o <<";", " ">> \o rest

RECURSIVE SplitParts(_, _, _)
\* cookies.split("; "): the parts of text from position i on, part being
\* the part read so far.  "" splits into the one part "".
SplitParts(text, i, part) ==
    IF i > Len(text) THEN <<part>>
    ELSE IF text[i] = ";" /\ i < Len(text) /\ text[i + 1] = " "
    THEN <<part>> \o SplitParts(text, i + 2, <<>>)
    ELSE SplitParts(text, i + 1, Append(part, text[i]))

RECURSIVE AddParts(_, _, _)
\* The loop of build_client_from_cookies over cookies.split("; "): empty
\* parts are skipped.
AddParts(jar, cookies, i) ==
    IF i > Len(cookies) THEN jar
    ELSE AddParts(IF cookies[i] # <<>>
                  THEN add_cookie_str(jar, SetCookieString(cookies[i]))
                  ELSE jar,
                  cookies, i + 1)

\* A Client is its cookie jar, which every clone of the client shares.
NewClient(jar) == [jar |-> jar]

\* A client built without its cookie provider.
build_client_without_cookies(cookies) == NewClient(EmptyJar)

build_client_from_cookies(cookies) ==
    NewClient(AddParts(EmptyJar, SplitParts(cookies, 1, <<>>), 1))

\* ------------------------------------------------------------ session types

SessionData(c, t, pid) == [client |-> c, csrf |-> t, profile_id |-> pid]

\* The text of session.json: serde_json::to_string of a SavedSession.
SavedSession(cookies, t, pid) ==
    [kind |-> "json", portal_cookies |-> cookies, csrf |-> t, profile_id |-> pid]

\* File contents that are no SavedSession: text that does not deserialize
\* (also what a write that failed half-way leaves), and bytes that
\* read_to_string rejects.
CorruptText == [kind |-> "garbage"]
UnreadableBytes == [kind |-> "binary"]

\* serde_json::from_str::<SavedSession>
ParseSavedSession(text) ==
    IF text.kind = "json" THEN Ok(text) ELSE Err("Corrupt session file")

\* ------------------------------------------------------------ requests

\* An HTTP request as sent: the headers and form fields the code sets.
Request(method, url, query, headers, form) ==
    [method |-> method, url |-> url, query |-> query,
     headers |-> headers, form |-> form]

ServiceQuery == <<<<"service", SERVICE_URL>>>>

\* The request api_get builds.
ApiGetRequest(path, t, pid) ==
    Request("GET", PORTAL_URL \o path, <<>>,
            << <<"X-CSRF-TOKEN", t>>, <<"X-Profile", pid>>,
               <<"X-Requested-With", "XMLHttpRequest">>,
               <<"Accept", "application/json">> >>,
            None)

STUDENT_DATA == "/feign/student/student_data"
GRADES_ALL == "/feign/student/grades/all"

GradeStatsPath(a) ==
    "/feign/student/grades/stats/course_syllabus/" \o a.course_syllabus_id
        \o "/exam_period/" \o a.exam_period_id

\* A form that never carries lt.
LoginFormWithoutLt(a, tokens) ==
    << <<"username", a.username>>, <<"password", a.password>>,
       <<"execution", tokens.execution>>, <<"_eventId", "submit">> >>

\* The login form, lt pushed last when the page carried it.
LoginForm(a, tokens) ==
    LET base == << <<"username", a.username>>, <<"password", a.password>>,
                   <<"execution", tokens.execution>>, <<"_eventId", "submit">> >>
    IN IF IsSome(tokens.lt) THEN Append(base, <<"lt", Unwrap(tokens.lt)>>)
       ELSE base

\* ------------------------------------------------------------ environment

\* What the servers and the caller may supply.
AllTokens == <<"tokA", "tokB", "tokC", "tokD">>
Tokens == {AllTokens[i] : i \in 1..NumTokens}

Credentials == {[username |-> "alice", password |-> "secret"]}
StatsArgs == {[course_syllabus_id |-> "101", exam_period_id |-> "7"]}

\* CAS login pages: with both hidden inputs, without lt, with an lt input
\* that has no value attribute, without execution, and with a first
\* execution input that has no value attribute.
LoginPages ==
    { << Element("input", "execution", Some("e1s1")),
         Element("input", "lt", Some("LT-1")) >>,
      << Element("input", "execution", Some("e1s1")) >>,
      << Element("input", "execution", Some("e1s1")),
         Element("input", "lt", None) >>,
      << Element("input", "lt", Some("LT-1")) >>,
      << Element("input", "execution", None),
         Element("input", "execution", Some("e1s1")) >> }

\* Portal pages: with a _csrf meta tag, or without one.
PortalPages == {<< Element("meta", "_csrf", Some(t)) >> : t \in Tokens} \cup {<<>>}

\* Bodies of /api/person/profiles.
ProfileBodies ==
    { JObj(<< <<"data", JObj(<< <<"id", JNum(42)>> >>)>> >>),
      JArr(<< JObj(<< <<"id", JStr("42")>> >>), JObj(<< <<"id", JStr("zzz")>> >>) >>),
      JObj(<<>>) }

ProfileIds == {Unwrap(find_profile_id(b)) : b \in {x \in ProfileBodies : IsSome(find_profile_id(x))}}

\* Bodies of the student-data and grades endpoints.
ApiBodies == {JObj(<< <<"fullName", JStr("student")>> >>)}

\* Portal cookies a response may leave in the jar.
PortalJars == {EmptyJar, {<< <<"JSESSIONID">>, <<"s1">> >>}}

\* Hosts the credential POST may finally resolve to.
FinalHosts == {SSO_HOST, PORTAL_HOST, "elsewhere.example"}

\* What session.json may hold when the process starts.
FileContents ==
    {CorruptText, UnreadableBytes}
        \cup {SavedSession(CookieHeader(j), t, pid) :
                j \in PortalJars, t \in Tokens, pid \in ProfileIds}

\* What awaiting api_get may yield: the send fails, the body is no JSON, or
\* the body decodes (the HTTP status is not looked at).
ApiGetOutcomes ==
    {Err("Request failed"), Err("Invalid JSON")} \cup {Ok(b) : b \in ApiBodies}


\* ------------------------------------------------------------ state

VARIABLES
    session,       \* AppState.session: Option<SessionData>
    disk,          \* session.json: None when there is no file, else its contents
    pc,            \* per command slot: "idle" or the point the command is at
    cmd,           \* per slot: the command in flight
    args,          \* per slot: the arguments of the command in flight
    client,        \* per slot: local `client`
    csrf,          \* per slot: local `csrf` (saved.csrf in try_restore_session)
    profile_id,    \* per slot: local `profile_id` / `pid` (saved.profile_id)
    student_info,  \* per slot: local `student_info`
    serial,        \* TRUE when the shell runs one command at a time and observes it
    reqs,          \* observed: the requests the last command has sent, in order
    result,        \* observed: what the last command returned
    pre,           \* observed: session and disk when the last command was invoked
    lastLogin,     \* csrf and profile_id of the most recent login that returned Ok
    lock,          \* AppState.session's mutex between steps: its holder, or None
    afterLogout,   \* since the last logout returned: the slots then in flight
    keep_in_tray,  \* AppState.settings.keep_in_tray
    settings_file, \* settings.json: None when there is no file, else its contents
    probe          \* a helper function under test: its input and, once run, its result

locals == <<client, csrf, profile_id, student_info>>
\* What the session commands have no access to.
aside == <<keep_in_tray, settings_file, probe>>
vars == <<session, disk, pc, cmd, args, client, csrf, profile_id, student_info,
          serial, reqs, result, pre, lastLogin, lock, afterLogout, aside>>

DataCommands == {"get_student_info", "get_grades", "get_grade_stats"}

\* The slot a serial shell runs its commands in.
SerialSlot == CHOOSE p \in Procs : TRUE

\* run(): AppState { session: Mutex::new(None), .. }; session.json is
\* whatever an earlier run of the program left.
InitCommon ==
    /\ session = None
    /\ disk \in {None} \cup {Some(f) : f \in FileContents}
    /\ pc = [p \in Procs |-> "idle"]
    /\ cmd = [p \in Procs |-> "none"]
    /\ args = [p \in Procs |-> None]
    /\ client = [p \in Procs |-> None]
    /\ csrf = [p \in Procs |-> None]
    /\ profile_id = [p \in Procs |-> None]
    /\ student_info = [p \in Procs |-> None]
    /\ reqs = [p \in Procs |-> <<>>]
    /\ result = [p \in Procs |-> NoResult]
    /\ pre = None
    /\ lastLogin = None
    /\ lock = None
    /\ afterLogout = None

\* No settings file, so setup leaves AppSettings::default(); no helper is
\* under test.
SessionOnly ==
    /\ keep_in_tray = FALSE
    /\ settings_file = None
    /\ probe = None

\* Commands overlap freely (async commands run on the runtime's threads).
Init == InitCommon /\ SessionOnly /\ serial = FALSE

\* The shell awaits each command before it invokes the next.
SerialInit == InitCommon /\ SessionOnly /\ serial = TRUE

\* ------------------------------------------------------------ steps

\* What the observer of a serial run records; nothing is recorded when
\* commands overlap.
Observed(x, blank) == IF serial THEN x ELSE blank

\* afterLogout is None until a logout returns; from then on it holds the
\* slots whose command was already in flight at that return, until a command
\* invoked after it saves or installs a session.
InFlightAt(p) == Some({q \in Procs \ {p} : pc[q] # "idle"})

\* A new command in slot p was not in flight at the last logout.
InvokedAfter(p) ==
    IF IsSome(afterLogout) THEN Some(Unwrap(afterLogout) \ {p}) ELSE None

\* The command in slot p saves or installs a session.
InstalledBy(p) ==
    IF IsSome(afterLogout) /\ p \notin Unwrap(afterLogout) THEN None
    ELSE afterLogout

\* A command is invoked in slot p.
Begin(p) ==
    /\ pc[p] = "idle"
    /\ serial => p = SerialSlot
    /\ pre' = Observed(Some([session |-> session, disk |-> disk]), None)
    /\ afterLogout' = InvokedAfter(p)

\* Command c in slot p returns r; its arguments and locals are dropped.
ReturnAs(p, c, r) ==
    /\ pc' = [pc EXCEPT ![p] = "idle"]
    /\ cmd' = [cmd EXCEPT ![p] = Observed(c, "none")]
    /\ result' = [result EXCEPT ![p] = Observed(r, NoResult)]
    /\ args' = [args EXCEPT ![p] = None]
    /\ client' = [client EXCEPT ![p] = None]
    /\ csrf' = [csrf EXCEPT ![p] = None]
    /\ profile_id' = [profile_id EXCEPT ![p] = None]
    /\ student_info' = [student_info EXCEPT ![p] = None]

\* The command in flight in slot p returns r.
Return(p, r) == ReturnAs(p, cmd[p], r) /\ UNCHANGED reqs

\* Command c returns r from its first step, before any request.
ReturnAtOnce(p, c, r) ==
    ReturnAs(p, c, r) /\ reqs' = [reqs EXCEPT ![p] = <<>>]

\* The command in slot p, having sent the requests in log, sends req and
\* suspends at label until the response arrives.
SendAndAwait(p, log, req, label) ==
    /\ reqs' = [reqs EXCEPT ![p] = Observed(Append(log, req), <<>>)]
    /\ pc' = [pc EXCEPT ![p] = label]
    /\ result' = [result EXCEPT ![p] = NoResult]

\* ------------------------------------------------------------ sync state helpers

\* A guard that lives on in the command's frame after the access.
SessionGuardKept(p) == Some(p)

\* The holder of the session mutex after extract_session, store_session or
\* logout has run in slot p: the MutexGuard is a local of those functions
\* and is dropped when they return.
SessionGuardDropped(p) == None

\* Slot p takes the session mutex for one access; it waits while another
\* slot holds it.
WithSessionLock(p) ==
    /\ lock = None
    /\ lock' = SessionGuardDropped(p)

\* A snapshot that falls back to an empty session when none is installed.
extract_session_or_default(s) ==
    IF IsSome(s)
    THEN Ok([client |-> Unwrap(s).client, csrf |-> Unwrap(s).csrf,
             profile_id |-> Unwrap(s).profile_id])
    ELSE Ok([client |-> NewClient(EmptyJar), csrf |-> "", profile_id |-> ""])

\* extract_session: under the lock, a clone of the three fields of the slot.
extract_session(s) ==
    IF IsSome(s)
    THEN Ok([client |-> Unwrap(s).client, csrf |-> Unwrap(s).csrf,
             profile_id |-> Unwrap(s).profile_id])
    ELSE Err("Not logged in")

\* A store that updates an installed session field by field and leaves its
\* client in place.
store_session_keeping_client(s, data) ==
    IF IsSome(s) THEN Some([data EXCEPT !.client = Unwrap(s).client]) ELSE Some(data)

\* store_session: under the lock, the slot s is replaced by Some(data).
store_session(s, data) == Some(data)

\* ------------------------------------------------------------ persistence

\* save_session_to_disk: the contents of session.json afterwards.  The write
\* succeeds, or fails before the file is touched (path or directory error,
\* the file cannot be opened), or fails after the file was truncated.
save_session_to_disk(file, jar, t, pid) ==
    { Some(SavedSession(CookieHeader(jar), t, pid)), file, Some(CorruptText) }

\* A delete that removes nothing.
delete_session_skipped(file) == file

\* delete_session_from_disk: remove_file, its result ignored; removing a
\* missing file changes nothing.
delete_session_from_disk(file) == None

\* ------------------------------------------------------------ data commands

\* get_student_info, get_grades, get_grade_stats: snapshot the session, then
\* one api_get with the snapshot.
DataCommand(p, c, a, path) ==
    /\ Begin(p)
    /\ WithSessionLock(p)
    /\ LET snap == extract_session(session)
       IN IF IsErr(snap)
          THEN ReturnAtOnce(p, c, snap)
          ELSE /\ cmd' = [cmd EXCEPT ![p] = c]
               /\ args' = [args EXCEPT ![p] = a]
               /\ client' = [client EXCEPT ![p] = Some(snap.value.client)]
               /\ csrf' = [csrf EXCEPT ![p] = Some(snap.value.csrf)]
               /\ profile_id' = [profile_id EXCEPT ![p] = Some(snap.value.profile_id)]
               /\ SendAndAwait(p, <<>>,
                     ApiGetRequest(path, snap.value.csrf, snap.value.profile_id),
                     "api_get")
               /\ UNCHANGED student_info
    /\ UNCHANGED <<session, disk, serial, aside, lastLogin>>

get_student_info(p) == DataCommand(p, "get_student_info", None, STUDENT_DATA)

get_grades(p) == DataCommand(p, "get_grades", None, GRADES_ALL)

get_grade_stats(p) ==
    \E a \in StatsArgs : DataCommand(p, "get_grade_stats", Some(a), GradeStatsPath(a))

\* The data command's api_get completes and its result is the command's.
ApiGetReturn(p) ==
    /\ pc[p] = "api_get"
    /\ \E r \in ApiGetOutcomes : Return(p, r)
    /\ UNCHANGED <<session, disk, serial, aside, lock, afterLogout, pre, lastLogin>>

\* ------------------------------------------------------------ logout

\* logout, first half: the file is removed.  Synchronous commands run on the
\* main thread, one at a time.
logout(p) ==
    /\ Begin(p)
    /\ \A q \in Procs : pc[q] # "logout_clear"
    /\ disk' = delete_session_from_disk(disk)
    /\ cmd' = [cmd EXCEPT ![p] = "logout"]
    /\ pc' = [pc EXCEPT ![p] = "logout_clear"]
    /\ reqs' = [reqs EXCEPT ![p] = <<>>]
    /\ result' = [result EXCEPT ![p] = NoResult]
    /\ UNCHANGED <<session, args, locals, serial, aside, lock, lastLogin>>

\* logout, second half: under the lock the slot is cleared.
LogoutClear(p) ==
    /\ pc[p] = "logout_clear"
    /\ WithSessionLock(p)
    /\ session' = None
    /\ Return(p, Ok(JNull))
    /\ afterLogout' = InFlightAt(p)
    /\ UNCHANGED <<disk, serial, aside, pre, lastLogin>>

\* ------------------------------------------------------------ try_restore_session

\* std::fs::read_to_string(&path)
ReadSessionFile(file) ==
    IF IsSome(file) /\ Unwrap(file) # UnreadableBytes
    THEN Ok(Unwrap(file)) ELSE Err("No saved session")

\* A restore that deletes the file on every load error but the missing file.
RestoreLoadErrorDeleting(p, e) ==
    /\ ReturnAtOnce(p, "try_restore_session", e)
    /\ disk' = IF e = Err("No saved session") THEN disk ELSE delete_session_from_disk(disk)

\* try_restore_session returns the load error e: the `?` on the read, on
\* the parse and the empty-cookies return leave the file alone.
RestoreLoadError(p, e) ==
    /\ ReturnAtOnce(p, "try_restore_session", e)
    /\ UNCHANGED disk

\* try_restore_session up to its await: read and parse the file, reject empty
\* cookies, rebuild a client and send the validation api_get.
try_restore_session(p) ==
    /\ Begin(p)
    /\ LET text == ReadSessionFile(disk)
           saved == IF IsOk(text) THEN ParseSavedSession(text.value) ELSE text
       IN IF IsErr(saved)
          THEN RestoreLoadError(p, saved)
          ELSE IF saved.value.portal_cookies = <<>>
          THEN RestoreLoadError(p, Err("Empty session"))
          ELSE /\ cmd' = [cmd EXCEPT ![p] = "try_restore_session"]
               /\ client' = [client EXCEPT ![p] =
                     Some(build_client_from_cookies(saved.value.portal_cookies))]
               /\ csrf' = [csrf EXCEPT ![p] = Some(saved.value.csrf)]
               /\ profile_id' = [profile_id EXCEPT ![p] = Some(saved.value.profile_id)]
               /\ SendAndAwait(p, <<>>,
                     ApiGetRequest(STUDENT_DATA, saved.value.csrf, saved.value.profile_id),
                     "restore_validate")
               /\ UNCHANGED <<args, student_info, disk>>
    /\ UNCHANGED <<session, serial, aside, lock, lastLogin>>

\* A restore that treats a failed validation as an invalidation of the
\* installed session too.
RestoreValidateClearing(p) ==
    /\ pc[p] = "restore_validate"
    /\ \E r \in ApiGetOutcomes :
          IF IsErr(r)
          THEN /\ disk' = delete_session_from_disk(disk)
               /\ WithSessionLock(p)
               /\ session' = None
               /\ Return(p, Err("Session expired"))
               /\ UNCHANGED afterLogout
          ELSE /\ WithSessionLock(p)
               /\ session' = store_session(session,
                     SessionData(Unwrap(client[p]), Unwrap(csrf[p]), Unwrap(profile_id[p])))
               /\ afterLogout' = InstalledBy(p)
               /\ Return(p, r)
               /\ UNCHANGED disk
    /\ UNCHANGED <<serial, aside, pre, lastLogin>>

\* A restore that reports a failed validation and leaves the file in place.
RestoreValidateKeepingFile(p) ==
    /\ pc[p] = "restore_validate"
    /\ \E r \in ApiGetOutcomes :
          IF IsErr(r)
          THEN /\ Return(p, Err("Session expired"))
               /\ UNCHANGED <<session, lock, afterLogout>>
          ELSE /\ WithSessionLock(p)
               /\ session' = store_session(session,
                     SessionData(Unwrap(client[p]), Unwrap(csrf[p]), Unwrap(profile_id[p])))
               /\ afterLogout' = InstalledBy(p)
               /\ Return(p, r)
    /\ UNCHANGED <<disk, serial, aside, pre, lastLogin>>

\* The validation call completes: on failure the file is deleted and the
\* restore fails, on success the session is stored and the payload returned.
RestoreValidate(p) ==
    /\ pc[p] = "restore_validate"
    /\ \E r \in ApiGetOutcomes :
          IF IsErr(r)
          THEN /\ disk' = delete_session_from_disk(disk)
               /\ Return(p, Err("Session expired"))
               /\ UNCHANGED <<session, lock, afterLogout>>
          ELSE /\ WithSessionLock(p)
               /\ session' = store_session(session,
                     SessionData(Unwrap(client[p]), Unwrap(csrf[p]), Unwrap(profile_id[p])))
               /\ afterLogout' = InstalledBy(p)
               /\ Return(p, r)
               /\ UNCHANGED disk
    /\ UNCHANGED <<serial, aside, pre, lastLogin>>

\* ------------------------------------------------------------ login

\* login up to its first await: build the client, GET the portal root.
login(p) ==
    /\ Begin(p)
    /\ \E a \in Credentials :
          /\ cmd' = [cmd EXCEPT ![p] = "login"]
          /\ args' = [args EXCEPT ![p] = Some(a)]
          /\ client' = [client EXCEPT ![p] = Some(NewClient(EmptyJar))]
          /\ SendAndAwait(p, <<>>, Request("GET", PORTAL_URL, <<>>, <<>>, None),
                          "login_portal")
    /\ UNCHANGED <<session, disk, csrf, profile_id, student_info, serial, aside, lock, lastLogin>>

\* A portal response to the login's client leaves the cookies j in its jar.
SetCookies(p, j) ==
    client' = [client EXCEPT ![p] = Some(NewClient(j))]

\* 1 -> 2: the portal answered; load the CAS login page.
LoginPortal(p) ==
    /\ pc[p] = "login_portal"
    /\ \/ Return(p, Err("Portal unreachable"))
       \/ \E j \in PortalJars :
             /\ SetCookies(p, j)
             /\ SendAndAwait(p, reqs[p],
                   Request("GET", SSO_URL, ServiceQuery, <<>>, None), "login_cas_page")
             /\ UNCHANGED <<cmd, args, csrf, profile_id, student_info>>
    /\ UNCHANGED <<session, disk, serial, aside, lock, afterLogout, pre, lastLogin>>

\* 2 -> 4: the login page arrived; extract the hidden tokens and submit the
\* credentials.
LoginCasPageLoaded(p, html) ==
    LET tokens == extract_cas_tokens(html)
    IN IF IsErr(tokens)
       THEN Return(p, tokens)
       ELSE /\ SendAndAwait(p, reqs[p],
                  Request("POST", SSO_URL, ServiceQuery,
                          << <<"Referer", SSO_URL>> >>,
                          Some(LoginForm(Unwrap(args[p]), tokens.value))),
                  "login_post")
            /\ UNCHANGED <<cmd, args, locals>>

LoginCasPage(p) ==
    /\ pc[p] = "login_cas_page"
    /\ \/ Return(p, Err("CAS page error"))
       \/ Return(p, Err("error decoding response body"))
       \/ \E html \in LoginPages : LoginCasPageLoaded(p, html)
    /\ UNCHANGED <<session, disk, serial, aside, lock, afterLogout, pre, lastLogin>>

\* A check that takes only the portal's host for success.
CredentialsRejectedUnlessPortal(host) == host # PORTAL_HOST

\* The check on the host of the POST's final URL.
CredentialsRejected(host) == host = SSO_HOST

\* 4 -> 5: the POST resolved to host; rejected when that is the CAS host,
\* else GET the portal root for the CSRF token.
LoginPost(p, host) ==
    /\ pc[p] = "login_post"
    /\ IF CredentialsRejected(host)
       THEN Return(p, Err("Invalid username or password"))
       ELSE \E j \in PortalJars :
               /\ SetCookies(p, j)
               /\ SendAndAwait(p, reqs[p],
                     Request("GET", PORTAL_URL, <<>>, <<>>, None), "login_csrf")
               /\ UNCHANGED <<cmd, args, csrf, profile_id, student_info>>
    /\ UNCHANGED <<session, disk, serial, aside, lock, afterLogout, pre, lastLogin>>

\* 4: the POST itself failed.
LoginPostFailed(p) ==
    /\ pc[p] = "login_post"
    /\ Return(p, Err("Login request failed"))
    /\ UNCHANGED <<session, disk, serial, aside, lock, afterLogout, pre, lastLogin>>

\* 5 -> 6: the portal page arrived; extract the CSRF token and fetch the
\* profiles.
LoginCsrf(p) ==
    /\ pc[p] = "login_csrf"
    /\ \/ Return(p, Err("error sending request"))
       \/ \E html \in PortalPages, j \in PortalJars :
             LET t == extract_csrf(html)
             IN IF IsErr(t)
                THEN Return(p, t)
                ELSE /\ SetCookies(p, j)
                     /\ csrf' = [csrf EXCEPT ![p] = Some(t.value)]
                     /\ SendAndAwait(p, reqs[p],
                           Request("GET", PORTAL_URL \o "/api/person/profiles", <<>>,
                                   << <<"X-CSRF-TOKEN", t.value>>,
                                      <<"X-Requested-With", "XMLHttpRequest">> >>,
                                   None),
                           "login_profiles")
                     /\ UNCHANGED <<cmd, args, profile_id, student_info>>
    /\ UNCHANGED <<session, disk, serial, aside, lock, afterLogout, pre, lastLogin>>

\* 6 -> 7: the profiles arrived; find the profile id and fetch the student
\* data.
LoginProfiles(p) ==
    /\ pc[p] = "login_profiles"
    /\ \/ Return(p, Err("error decoding response body"))
       \/ \E body \in ProfileBodies :
             LET id == find_profile_id(body)
             IN IF ~IsSome(id)
                THEN Return(p, Err("No student profiles found"))
                ELSE /\ profile_id' = [profile_id EXCEPT ![p] = id]
                     /\ SendAndAwait(p, reqs[p],
                           ApiGetRequest(STUDENT_DATA, Unwrap(csrf[p]), Unwrap(id)),
                           "login_student_info")
                     /\ UNCHANGED <<cmd, args, client, csrf, student_info>>
    /\ UNCHANGED <<session, disk, serial, aside, lock, afterLogout, pre, lastLogin>>

\* A login that, like restore, deletes the file when its student-data call
\* fails.
LoginStudentInfoDeleting(p) ==
    /\ pc[p] = "login_student_info"
    /\ \E r \in ApiGetOutcomes :
          IF IsErr(r)
          THEN /\ Return(p, r)
               /\ disk' = delete_session_from_disk(disk)
          ELSE /\ student_info' = [student_info EXCEPT ![p] = Some(r.value)]
               /\ pc' = [pc EXCEPT ![p] = "login_save"]
               /\ UNCHANGED <<cmd, args, client, csrf, profile_id, reqs, result, disk>>
    /\ UNCHANGED <<session, serial, aside, lock, afterLogout, pre, lastLogin>>

\* 7: the student data arrived, or api_get failed and so does the login.
LoginStudentInfo(p) ==
    /\ pc[p] = "login_student_info"
    /\ \E r \in ApiGetOutcomes :
          IF IsErr(r)
          THEN Return(p, r)
          ELSE /\ student_info' = [student_info EXCEPT ![p] = Some(r.value)]
               /\ pc' = [pc EXCEPT ![p] = "login_save"]
               /\ UNCHANGED <<cmd, args, client, csrf, profile_id, reqs, result>>
    /\ UNCHANGED <<session, disk, serial, aside, lock, afterLogout, pre, lastLogin>>

\* A login that propagates a failed write with `?`.
LoginSaveOrFail(p) ==
    /\ pc[p] = "login_save"
    /\ \E d \in save_session_to_disk(disk, Unwrap(client[p]).jar,
                                      Unwrap(csrf[p]), Unwrap(profile_id[p])) :
          /\ disk' = d
          /\ IF d = Some(SavedSession(CookieHeader(Unwrap(client[p]).jar),
                                      Unwrap(csrf[p]), Unwrap(profile_id[p])))
             THEN /\ pc' = [pc EXCEPT ![p] = "login_store"]
                  /\ UNCHANGED <<cmd, args, locals, reqs, result>>
             ELSE Return(p, Err("Failed to save session"))
    /\ afterLogout' = InstalledBy(p)
    /\ UNCHANGED <<session, serial, aside, lock, pre, lastLogin>>

\* 8: save the session to disk; the outcome of the write is discarded.
LoginSave(p) ==
    /\ pc[p] = "login_save"
    /\ disk' \in save_session_to_disk(disk, Unwrap(client[p]).jar,
                                      Unwrap(csrf[p]), Unwrap(profile_id[p]))
    /\ pc' = [pc EXCEPT ![p] = "login_store"]
    /\ afterLogout' = InstalledBy(p)
    /\ UNCHANGED <<session, cmd, args, locals, serial, aside, lock, reqs, result, pre, lastLogin>>

\* 9: store the session in memory and return the student data.
LoginStore(p) ==
    /\ pc[p] = "login_store"
    /\ WithSessionLock(p)
    /\ session' = store_session(session,
          SessionData(Unwrap(client[p]), Unwrap(csrf[p]), Unwrap(profile_id[p])))
    /\ lastLogin' = Some([csrf |-> Unwrap(csrf[p]),
                          profile_id |-> Unwrap(profile_id[p])])
    /\ Return(p, Ok(Unwrap(student_info[p])))
    /\ afterLogout' = InstalledBy(p)
    /\ UNCHANGED <<disk, serial, aside, pre>>

\* ------------------------------------------------------------ specification

Next ==
    \E p \in Procs :
       \/ login(p)
       \/ LoginPortal(p)
       \/ LoginCasPage(p)
       \/ \E host \in FinalHosts : LoginPost(p, host)
       \/ LoginPostFailed(p)
       \/ LoginCsrf(p)
       \/ LoginProfiles(p)
       \/ LoginStudentInfo(p)
       \/ LoginSave(p)
       \/ LoginStore(p)
       \/ try_restore_session(p)
       \/ RestoreValidate(p)
       \/ get_student_info(p)
       \/ get_grades(p)
       \/ get_grade_stats(p)
       \/ ApiGetReturn(p)
       \/ logout(p)
       \/ LogoutClear(p)

\* Commands may overlap.
Spec == Init /\ [][Next]_vars

\* ---- helper functions run on their own

\* The JSON values find_profile_id is run on: strings, numbers and null,
\* objects with an id, and around them objects (of up to two members, in
\* either order of visit) and arrays (of up to two elements) nested to
\* MaxDepth, at least one member or element of a container being shallow.
Shallow ==
    {JNull, JStr("s"), JNum(10),
     JObj(<< <<"id", JStr("s")>> >>), JObj(<< <<"id", JNum(10)>> >>)}

MemberKeys == {"id", "data"}

Containers(V, W) ==
    LET pairs == (V \X W) \cup (W \X V)
    IN {JObj(<<>>), JArr(<<>>)}
       \cup {JObj(<< <<k, v>> >>) : k \in MemberKeys, v \in V}
       \cup {JObj(<< <<k, vw[1]>>, <<CHOOSE o \in MemberKeys : o # k, vw[2]>> >>) :
                k \in MemberKeys, vw \in pairs}
       \cup {JArr(<<v>>) : v \in V}
       \cup {JArr(<<vw[1], vw[2]>>) : vw \in pairs}

RECURSIVE JsonValues(_)
JsonValues(depth) ==
    IF depth = 0 THEN Shallow
    ELSE LET V == JsonValues(depth - 1) IN V \cup Containers(V, Shallow)

\* A helper waits to be run on input.
Probe(fn, input) == Some([fn |-> fn, input |-> input, output |-> None])

\* No command runs and there is no session file.
HelperInit ==
    /\ InitCommon
    /\ disk = None
    /\ serial = TRUE
    /\ keep_in_tray = FALSE
    /\ settings_file = None

\* The helper fn is run on the input of the probe and its result kept.
RunHelper(fn, out) ==
    /\ IsSome(probe)
    /\ Unwrap(probe).fn = fn
    /\ Unwrap(probe).output = None
    /\ probe' = Some([Unwrap(probe) EXCEPT !.output = Some(out)])
    /\ UNCHANGED <<session, disk, pc, cmd, args, locals, serial, reqs, result, pre,
                   lastLogin, lock, afterLogout, keep_in_tray, settings_file>>

RunFindProfileId ==
    RunHelper("find_profile_id", find_profile_id(Unwrap(probe).input))

\* find_profile_id on every JSON value of the bounded family.
FindProfileInit ==
    /\ HelperInit
    /\ probe \in {Probe("find_profile_id", v) : v \in JsonValues(MaxDepth)}

FindProfileSpec == FindProfileInit /\ [][RunFindProfileId]_vars

\* The jars the cookie round trip is run on: under each of NumCookies names
\* no cookie or one whose value is empty, plain, holds "=" or holds a space.
AllCookieNames == << <<"a">>, <<"b">>, <<"c">>, <<"d">>, <<"e">> >>
CookieNames == {AllCookieNames[i] : i \in 1..NumCookies}
CookieValues == {<<>>, <<"1">>, <<"x", "=", "=">>, <<"p", " ", "q">>}
Jars ==
    {jar \in SUBSET (CookieNames \X CookieValues) :
        \A c, d \in jar : c[1] = d[1] => c = d}

\* save_session_to_disk's rendering of the jar, build_client_from_cookies
\* on the string, and the rendering of the rebuilt client's jar.
CookieRoundTrip(jar) ==
    LET header == CookieHeader(jar)
        rebuilt == build_client_from_cookies(header)
    IN [header |-> header, rebuilt |-> rebuilt, again |-> CookieHeader(rebuilt.jar)]

RunCookieRoundTrip ==
    RunHelper("cookie_round_trip", CookieRoundTrip(Unwrap(probe).input))

\* The cookie round trip on every jar of the bounded family.
CookieInit ==
    /\ HelperInit
    /\ probe \in {Probe("cookie_round_trip", jar) : jar \in Jars}

CookieSpec == CookieInit /\ [][RunCookieRoundTrip]_vars

\* The timeout of the clients the program builds: Client::builder() with a
\* cookie provider and a user agent and nothing else, so reqwest's default,
\* which is no timeout at all.
ClientTimeout == None

\* The steps a command takes on its own: the runtime always runs them.
LocalStep(p) == LoginSave(p) \/ LoginStore(p) \/ LogoutClear(p)

\* The steps that complete an await on the network.
NetworkStep(p) ==
    \/ LoginPortal(p) \/ LoginCasPage(p) \/ LoginPostFailed(p)
    \/ (\E host \in FinalHosts : LoginPost(p, host))
    \/ LoginCsrf(p) \/ LoginProfiles(p) \/ LoginStudentInfo(p)
    \/ RestoreValidate(p) \/ ApiGetReturn(p)

\* A network step the client forces by its deadline, if it has one.
TimedOutStep(p) == IsSome(ClientTimeout) /\ NetworkStep(p)

\* Serial runs in which every local step is taken and the remote servers
\* answer or not as they please: an await ends for certain only if the
\* client times it out.
LiveSpec ==
    /\ SerialInit
    /\ [][Next]_vars
    /\ \A p \in Procs : WF_vars(LocalStep(p)) /\ WF_vars(TimedOutStep(p))

\* One command at a time, observed.
SerialSpec == SerialInit /\ [][Next]_vars

\* ---- settings

AppSettings(flag) == [keep_in_tray |-> flag]

\* AppSettings::default(): #[derive(Default)] on a bool field.
DefaultSettings == AppSettings(FALSE)

\* serde_json::to_string(settings): the text {"keep_in_tray":true}, as the
\* sequence of its tokens.
SettingsText(settings) ==
    <<"{", "keep_in_tray", ":",
      IF settings.keep_in_tray THEN "true" ELSE "false", "}">>

\* serde_json::from_str::<AppSettings>(&data): an object with the one
\* boolean member, anything else is an error.
ParseSettings(data) ==
    IF /\ Len(data) = 5
       /\ <<data[1], data[2], data[3], data[5]>> = <<"{", "keep_in_tray", ":", "}">>
       /\ data[4] \in {"true", "false"}
    THEN Ok(AppSettings(data[4] = "true"))
    ELSE Err("invalid settings")

\* load_settings: the default when the file cannot be read or parsed.
load_settings(file) ==
    IF ~IsSome(file) THEN DefaultSettings
    ELSE LET parsed == ParseSettings(Unwrap(file))
         IN IF IsOk(parsed) THEN parsed.value ELSE DefaultSettings

\* save_settings: the file written and Ok, or an error from the path, from
\* create_dir_all or from the write, which leaves the file as it was or,
\* failing after the truncation, empty.
save_settings(file, settings) ==
    {[file |-> Some(SettingsText(settings)), result |-> Ok(JNull)],
     [file |-> file, result |-> Err("settings write failed")],
     [file |-> Some(<<>>), result |-> Err("settings write failed")]}

\* A settings command was run with value while the flag was prior and
\* returned result.
SettingsCall(fn, value, prior, r) ==
    Some([fn |-> fn, input |-> [value |-> value, prior |-> prior],
          output |-> Some(r)])

\* get_keep_in_tray: the flag, read under the settings lock.
get_keep_in_tray ==
    /\ probe' = SettingsCall("get_keep_in_tray", keep_in_tray, keep_in_tray,
                             Ok(JBool(keep_in_tray)))
    /\ UNCHANGED <<session, disk, pc, cmd, args, locals, serial, reqs, result, pre,
                   lastLogin, lock, afterLogout, keep_in_tray, settings_file>>

\* set_keep_in_tray: under the settings lock the flag is assigned, then the
\* settings are saved and the outcome of the save is the command's result.
set_keep_in_tray(value) ==
    /\ keep_in_tray' = value
    /\ \E saved \in save_settings(settings_file, AppSettings(value)) :
          /\ settings_file' = saved.file
          /\ probe' = SettingsCall("set_keep_in_tray", value, keep_in_tray,
                                   saved.result)
    /\ UNCHANGED <<session, disk, pc, cmd, args, locals, serial, reqs, result, pre,
                   lastLogin, lock, afterLogout>>

\* What settings.json may hold when the program starts.
SettingsFiles ==
    {None, Some(<<>>)} \cup {Some(SettingsText(AppSettings(b))) : b \in BOOLEAN}

\* run(): setup loads the settings from the file.
SettingsInit ==
    /\ InitCommon
    /\ serial = TRUE
    /\ probe = None
    /\ settings_file \in SettingsFiles
    /\ keep_in_tray = load_settings(settings_file).keep_in_tray

SessionStep == Next

SettingsStep == get_keep_in_tray \/ \E value \in BOOLEAN : set_keep_in_tray(value)

SettingsNext == SessionStep \/ SettingsStep

\* The session commands one at a time, the settings commands at any moment.
SettingsSpec == SettingsInit /\ [][SettingsNext]_vars

\* ------------------------------------------------------------ properties

Clients == {NewClient(j) : j \in PortalJars}
Sessions == {SessionData(c, t, pid) : c \in Clients, t \in Tokens, pid \in ProfileIds}

\* The SessionData the command in slot p holds in its locals.
LocalSession(p) ==
    SessionData(Unwrap(client[p]), Unwrap(csrf[p]), Unwrap(profile_id[p]))

\* The slot is absent or a complete session.
SessionWhole == session = None \/ (Len(session) = 1 /\ Unwrap(session) \in Sessions)

\* A step that changes the slot clears it or installs, whole, the client,
\* token and profile id of one login or restore that has reached its store.
InstallIsWhole ==
    session' # session =>
       \/ session' = None
       \/ \E p \in Procs :
             /\ pc[p] \in {"login_store", "restore_validate"}
             /\ pc'[p] = "idle"
             /\ session' = Some(LocalSession(p))

\* A data command that goes on to its api_get holds in its locals the three
\* fields of the session that was installed at the step of the snapshot.
SnapshotIsWhole ==
    \A p \in Procs :
       (pc[p] = "idle" /\ pc'[p] = "api_get") =>
          /\ IsSome(session)
          /\ Some(SessionData(Unwrap(client'[p]), Unwrap(csrf'[p]),
                              Unwrap(profile_id'[p]))) = session

\* C1: under any interleaving of login, try_restore_session, logout and the
\* data commands the session slot is always absent or a complete (client,
\* token, profile id) triple written by one single login or restore, and
\* every snapshot a data command takes consists of the client, token and
\* profile id of one and the same installed session.
C1_SessionAtomic ==
    /\ []SessionWhole
    /\ [][InstallIsWhole /\ SnapshotIsWhole]_vars

\* A data command holds a snapshot while another command has since replaced
\* the session it was taken from with a different one.
C1_Witness ==
    \E p \in Procs :
       /\ pc[p] = "api_get"
       /\ IsSome(session)
       /\ Unwrap(session) # LocalSession(p)

\* ---- observed serial runs

\* Session and disk when the command last invoked began.
Before == Unwrap(pre)

\* Session and disk left unchanged by the command last invoked.
Untouched == session = Before.session /\ disk = Before.disk

\* The paths the data commands request.
PathsOf(c) ==
    CASE c = "get_student_info" -> {STUDENT_DATA}
      [] c = "get_grades" -> {GRADES_ALL}
      [] c = "get_grade_stats" -> {GradeStatsPath(a) : a \in StatsArgs}
      [] OTHER -> {}

\* C2: a data command (get_student_info, get_grades, get_grade_stats)
\* invoked while no session is installed has returned the not-authenticated
\* error, has sent no request, and has left the in-memory session and the
\* persisted record as they were.
C2_NotAuthenticated ==
    \A p \in Procs :
       (cmd[p] \in DataCommands /\ IsSome(pre) /\ ~IsSome(Before.session)) =>
          /\ pc[p] = "idle"
          /\ result[p] = Err("Not logged in")
          /\ reqs[p] = <<>>
          /\ Untouched

\* A data command was refused while a persisted record lay on disk.
C2_Witness ==
    \E p \in Procs :
       /\ cmd[p] \in DataCommands
       /\ result[p] = Err("Not logged in")
       /\ IsSome(disk)

\* The installed session is the one the most recent successful login stored.
InstalledByLastLogin(s) ==
    /\ IsSome(s)
    /\ IsSome(lastLogin)
    /\ Unwrap(s).csrf = Unwrap(lastLogin).csrf
    /\ Unwrap(s).profile_id = Unwrap(lastLogin).profile_id

\* The values a request carries under a header name.
HeaderValues(req, name) ==
    {req.headers[i][2] : i \in {j \in 1..Len(req.headers) : req.headers[j][1] = name}}

\* What a data command in slot p has done, when it runs with the token and
\* profile id of the most recent successful login: one GET, to the portal,
\* carrying them; nothing sent to the CAS origin; its one attempt is its
\* result; session and file as they were.
OneGetOfLastLogin(p) ==
    /\ Len(reqs[p]) = 1
    /\ reqs[p][1].method = "GET"
    /\ \E path \in PathsOf(cmd[p]) : reqs[p][1].url = PORTAL_URL \o path
    /\ HeaderValues(reqs[p][1], "X-CSRF-TOKEN") = {Unwrap(lastLogin).csrf}
    /\ HeaderValues(reqs[p][1], "X-Profile") = {Unwrap(lastLogin).profile_id}
    /\ \A i \in 1..Len(reqs[p]) : reqs[p][i].url # SSO_URL
    /\ pc[p] \in {"api_get", "idle"}
    /\ pc[p] = "idle" => result[p] \in ApiGetOutcomes
    /\ Untouched

\* While the installed session is the one the most recent successful login
\* stored, every data command does exactly that.
OneGetWhileLoginInstalled ==
    \A p \in Procs :
       (cmd[p] \in DataCommands /\ IsSome(pre) /\ InstalledByLastLogin(Before.session))
          => OneGetOfLastLogin(p)

\* C3: after a login has succeeded and before any logout (in a serial run:
\* a login has succeeded and a session is installed), every data command
\* sends exactly one GET carrying the security token and profile id that
\* login installed, sends nothing to the CAS origin, is not retried, and
\* leaves the installed session and the persisted record as they were.
C3_AfterLoginOneGet ==
    \A p \in Procs :
       (cmd[p] \in DataCommands /\ IsSome(pre) /\ IsSome(lastLogin)
                               /\ IsSome(Before.session))
          => OneGetOfLastLogin(p)

UsableRecord(file) ==
    /\ IsSome(file)
    /\ Unwrap(file).kind = "json"
    /\ Unwrap(file).portal_cookies # <<>>

LoadErrors == {Err("No saved session"), Err("Corrupt session file"), Err("Empty session")}

\* C6 as stated: after try_restore_session fails with CorruptSession or with
\* EmptySession no persisted record exists, and after it fails with
\* NoSavedSession nothing is deleted.
C6_LoadErrorsDelete ==
    \A p \in Procs :
       (cmd[p] = "try_restore_session" /\ pc[p] = "idle") =>
          /\ result[p] \in {Err("Corrupt session file"), Err("Empty session")}
                => disk = None
          /\ result[p] = Err("No saved session") => disk = Before.disk

\* C6, amended: of the restore errors only SessionExpired deletes the
\* record; after NoSavedSession, CorruptSession or EmptySession the file is
\* exactly what it was before the call, and after the last two it is still
\* there.
C6_OnlyExpiryDeletes ==
    \A p \in Procs :
       (cmd[p] = "try_restore_session" /\ pc[p] = "idle" /\ IsErr(result[p])) =>
          /\ result[p] \in LoadErrors \cup {Err("Session expired")}
          /\ result[p] = Err("Session expired") => disk = None
          /\ result[p] \in LoadErrors => Untouched
          /\ result[p] \in {Err("Corrupt session file"), Err("Empty session")}
                => IsSome(disk)

\* A restore has failed on a corrupt file, which is still on disk.
C6_Witness ==
    \E p \in Procs :
       /\ cmd[p] = "try_restore_session"
       /\ result[p] = Err("Corrupt session file")
       /\ IsSome(disk)

\* The login in slot p was refused for its credentials.
Refused(p) == cmd[p] = "login" /\ result[p] = Err("Invalid username or password")

\* A login refused for its credentials sent three requests, the last of
\* them the credential POST, and left session and file alone.
RefusedAfterPost ==
    \A p \in Procs :
       Refused(p) =>
          /\ pc[p] = "idle"
          /\ Len(reqs[p]) = 3
          /\ reqs[p][3].method = "POST"
          /\ reqs[p][3].url = SSO_URL
          /\ Untouched

\* The step after the credential POST resolved to host: on the CAS host the
\* login returns InvalidCredentials with no further request, file write or
\* install; on any other host it goes on to fetch the portal page that
\* carries the security token.
HostDecides ==
    \A p \in Procs : \A host \in FinalHosts :
       LoginPost(p, host) =>
          IF host = SSO_HOST
          THEN /\ pc'[p] = "idle"
               /\ result'[p] = Err("Invalid username or password")
               /\ reqs'[p] = reqs[p]
               /\ session' = session
               /\ disk' = disk
          ELSE /\ pc'[p] = "login_csrf"
               /\ reqs'[p] = Append(reqs[p], Request("GET", PORTAL_URL, <<>>, <<>>, None))
               /\ session' = session
               /\ disk' = disk

\* InvalidCredentials is returned by no other step.
OnlyHostRefuses ==
    \A p \in Procs :
       (pc[p] # "idle" /\ pc'[p] = "idle"
           /\ result'[p] = Err("Invalid username or password"))
          => LoginPost(p, SSO_HOST)

\* C7: in login the host of the final URL of the credential POST alone
\* decides: on the CAS host login fails with InvalidCredentials, sends no
\* further request, writes no record and installs no session; on any other
\* host it proceeds to the security-token and profile steps.
C7_HostIsSoleSignal ==
    /\ []RefusedAfterPost
    /\ [][HostDecides /\ OnlyHostRefuses]_vars

\* A login was refused while a session was installed and a record on disk.
C7_Witness ==
    \E p \in Procs : Refused(p) /\ IsSome(session) /\ IsSome(disk)

\* C8: when login has failed, at whichever step, the in-memory session and
\* the persisted record are exactly what they were before the login was
\* invoked; a login that has succeeded has installed a session.
C8_FailedLoginChangesNothing ==
    \A p \in Procs :
       (cmd[p] = "login" /\ pc[p] = "idle") =>
          /\ IsErr(result[p]) \/ IsOk(result[p])
          /\ IsErr(result[p]) => Untouched
          /\ IsOk(result[p]) => InstalledByLastLogin(session)

\* A login failed at its last network step, the student-data call, with a
\* session installed and a record on disk.
C8_Witness ==
    \E p \in Procs :
       /\ cmd[p] = "login"
       /\ pc[p] = "idle"
       /\ result[p] = Err("Request failed")
       /\ Len(reqs[p]) = 6
       /\ IsSome(session)
       /\ IsSome(disk)

\* A login whose network steps have all succeeded holds the student data.
NetworkStepsDone(p) == pc[p] \in {"login_save", "login_store"}

\* From there its steps are the write, whatever its outcome, and then the
\* install of its session and the return of the student data.
SucceedsRegardless ==
    \A p \in Procs :
       (NetworkStepsDone(p) /\ pc'[p] # pc[p]) =>
          IF pc[p] = "login_save"
          THEN pc'[p] = "login_store" /\ student_info'[p] = student_info[p]
          ELSE /\ pc'[p] = "idle"
               /\ session' = Some(LocalSession(p))
               /\ result'[p] = Ok(Unwrap(student_info[p]))

\* C9: a login whose network steps all succeeded installs its session and
\* returns the student-data payload whether or not the write of the record
\* succeeded; a failed write never makes it an error.
C9_WriteFailureIgnored ==
    /\ [](\A p \in Procs : NetworkStepsDone(p) => IsSome(student_info[p]))
    /\ [][SucceedsRegardless]_vars

\* A login has succeeded although no record could be written.
C9_Witness ==
    \E p \in Procs :
       /\ cmd[p] = "login"
       /\ pc[p] = "idle"
       /\ IsOk(result[p])
       /\ IsSome(session)
       /\ Before.disk = None
       /\ disk = None

\* ---- the persisted record

\* No command is in flight.
Quiescent == \A p \in Procs : pc[p] = "idle"

\* The file holds a record.
RecordExists == IsSome(disk) /\ Unwrap(disk).kind = "json"

\* The record carries token t and profile id pid.
RecordCarries(t, pid) == Unwrap(disk).csrf = t /\ Unwrap(disk).profile_id = pid

\* C10: whenever no command is in flight, a persisted record that exists
\* holds the security token and profile id of the most recent successful
\* login, and if a session is installed too, the record and the session
\* carry the same token and profile id.
C10_RecordIsLastLogin ==
    (Quiescent /\ RecordExists) =>
       /\ IsSome(lastLogin) =>
             RecordCarries(Unwrap(lastLogin).csrf, Unwrap(lastLogin).profile_id)
       /\ IsSome(session) =>
             RecordCarries(Unwrap(session).csrf, Unwrap(session).profile_id)

\* ---- restore over an installed session

\* C11: once a session is installed, a later try_restore_session does not
\* replace it with the contents of the persisted record: when a restore
\* that began with a session installed has returned, the session is the one
\* it began with.
C11_MemoryWins ==
    \A p \in Procs :
       (cmd[p] = "try_restore_session" /\ pc[p] = "idle" /\ IsSome(Before.session))
          => session = Before.session

\* ---- the session lock

\* The points at which a command waits for a response from the network.
NetworkWaits ==
    {"api_get", "restore_validate", "login_portal", "login_cas_page", "login_post",
     "login_csrf", "login_profiles", "login_student_info"}

\* C12: no command holds the session lock while a network request is in
\* flight: whenever some command waits on the network the lock is free, so
\* the waiting command blocks no other command's access to the session.
C12_LockFreeWhileWaiting ==
    (\E p \in Procs : pc[p] \in NetworkWaits) => lock = None

\* A login waits on the network while a data command, invoked with a
\* session installed, has taken its snapshot and waits too.
C12_Witness ==
    \E p, q \in Procs :
       /\ cmd[p] = "login"
       /\ pc[p] \in NetworkWaits
       /\ pc[q] = "api_get"
       /\ IsSome(session)

\* ---- termination

\* C13: every login, try_restore_session and data command eventually
\* returns, with a payload or an error, even when the remote server never
\* answers.
C13_EveryCommandReturns ==
    \A p \in Procs :
       (cmd[p] \in DataCommands \cup {"login", "try_restore_session"} /\ pc[p] # "idle")
          ~> (pc[p] = "idle")

\* ---- a restore that succeeds

\* C14: when try_restore_session has succeeded, the installed session holds
\* the security token and the profile id of the persisted record and a
\* client whose jar renders the record's cookies, and the record is what it
\* was before the call, neither rewritten nor deleted.
C14_RestoreInstallsRecord ==
    \A p \in Procs :
       (cmd[p] = "try_restore_session" /\ pc[p] = "idle" /\ IsOk(result[p])) =>
          /\ UsableRecord(Before.disk)
          /\ IsSome(session)
          /\ Unwrap(session).csrf = Unwrap(Before.disk).csrf
          /\ Unwrap(session).profile_id = Unwrap(Before.disk).profile_id
          /\ CookieHeader(Unwrap(session).client.jar) = Unwrap(Before.disk).portal_cookies
          /\ disk = Before.disk

\* A restore has succeeded and installed a session where there was none.
C14_Witness ==
    \E p \in Procs :
       /\ cmd[p] = "try_restore_session"
       /\ pc[p] = "idle"
       /\ IsOk(result[p])
       /\ Before.session = None
       /\ IsSome(session)

\* ---- find_profile_id

\* The probe has been run.
Ran(fn) == IsSome(probe) /\ Unwrap(probe).fn = fn /\ IsSome(Unwrap(probe).output)

ProbeInput == Unwrap(probe).input
ProbeOutput == Unwrap(Unwrap(probe).output)

\* The own id of a value: of an object with a member "id" that is a string,
\* the string; that is a number, its decimal string; of anything else, none.
OwnId(v) ==
    IF v.k # "obj" THEN None
    ELSE LET ids == {i \in 1..Len(v.members) : v.members[i][1] = "id"}
         IN IF ids = {} THEN None
            ELSE LET id == v.members[CHOOSE i \in ids : TRUE][2]
                 IN IF id.k = "str" THEN Some(id.s)
                    ELSE IF id.k = "num" /\ id.n = 10 THEN Some("10")
                    ELSE None

RECURSIVE Described(_)
\* What find_profile_id is said to return.
Described(v) ==
    IF v.k = "obj"
    THEN LET yielding == {i \in 1..Len(v.members) : Described(v.members[i][2]) # None}
         IN IF yielding = {} THEN OwnId(v)
            ELSE Described(v.members[CHOOSE i \in yielding : \A j \in yielding : i <= j][2])
    ELSE IF v.k = "arr" /\ v.elems # <<>> THEN OwnId(v.elems[1])
    ELSE None

\* C15: find_profile_id on an object returns the first non-absent result of
\* recursing into its member values and, only if no member yields one, the
\* object's own id (a string as is, a number as its decimal string, any
\* other kind absent); on an array only the own id of the first element,
\* without recursing into it or looking at later elements; on any other
\* kind, an empty object or an empty array, absent.
C15_FindProfileId ==
    Ran("find_profile_id") =>
       /\ ProbeOutput = Described(ProbeInput)
       /\ ProbeInput.k \notin {"obj", "arr"} => ProbeOutput = None
       /\ ProbeInput \in {JObj(<<>>), JArr(<<>>)} => ProbeOutput = None

\* Run on an array whose first element has no id of its own but holds an
\* object that has one, followed by an element with an id: absent.
C15_Witness ==
    /\ Ran("find_profile_id")
    /\ ProbeInput = JArr(<< JObj(<< <<"data", JObj(<< <<"id", JStr("s")>> >>)>> >>),
                            JObj(<< <<"id", JNum(10)>> >>) >>)
    /\ ProbeOutput = None

\* ---- cookie round trip

\* C16: for every jar of name=value cookies of the portal origin, the
\* client rebuilt by build_client_from_cookies from the jar's rendering
\* holds the same set of name/value pairs, so its rendering carries the
\* same pairs; the empty string rebuilds a client with no cookies.
C16_CookieRoundTrip ==
    Ran("cookie_round_trip") =>
       /\ ProbeOutput.rebuilt.jar = ProbeInput
       /\ ProbeOutput.again = ProbeOutput.header
       /\ ProbeInput = {} <=> ProbeOutput.header = <<>>
       /\ ProbeOutput.header = <<>> => ProbeOutput.rebuilt = NewClient({})

\* The round trip was run on a jar of three cookies, one with "=" in its
\* value and one with an empty value.
C16_Witness ==
    /\ Ran("cookie_round_trip")
    /\ Cardinality(ProbeInput) = 3
    /\ \E c, d \in ProbeInput : c[2] = <<"x", "=", "=">> /\ d[2] = <<>>
    /\ ProbeOutput.rebuilt.jar = ProbeInput

\* The round trip was run on the empty jar.
EmptyRoundTrip == Ran("cookie_round_trip") /\ ProbeInput = {} /\ ProbeOutput.again = <<>>

\* ---- what changes the session

\* The command in slot p has its student-data GET behind it or in flight.
Validating(p) ==
    pc[p] \in {"login_student_info", "login_save", "login_store", "restore_validate"}

\* The last request slot p sent is the student-data GET, carrying the token
\* and the profile id slot p holds.
ValidatedLocals(p) ==
    /\ reqs[p] # <<>>
    /\ LET last == reqs[p][Len(reqs[p])]
       IN /\ last.method = "GET"
          /\ last.url = PORTAL_URL \o STUDENT_DATA
          /\ HeaderValues(last, "X-CSRF-TOKEN") = {Unwrap(csrf[p])}
          /\ HeaderValues(last, "X-Profile") = {Unwrap(profile_id[p])}

\* A step that changes the session is the return of a logout, which clears
\* it, or the successful return of a login or try_restore_session, which
\* installs the client, token and profile id it validated.
ChangedOnlyBy ==
    session' # session =>
       \E p \in Procs :
          /\ pc'[p] = "idle"
          /\ \/ /\ pc[p] = "logout_clear"
                /\ session' = None
             \/ /\ pc[p] \in {"login_store", "restore_validate"}
                /\ cmd[p] \in {"login", "try_restore_session"}
                /\ IsOk(result'[p])
                /\ ValidatedLocals(p)
                /\ session' = Some(LocalSession(p))

\* From its validation GET to its return a command keeps the client, the
\* token and the profile id it sent the GET with.
ValidatedKept ==
    \A p \in Procs :
       (Validating(p) /\ pc'[p] # "idle") =>
          /\ Validating(p)'
          /\ client'[p] = client[p]
          /\ csrf'[p] = csrf[p]
          /\ profile_id'[p] = profile_id[p]
          /\ reqs'[p] = reqs[p]

\* A command that failed, and a data command, left the session alone.
FailuresAndReadsKeep ==
    \A p \in Procs :
       (pc[p] = "idle" /\ IsSome(pre) /\ (IsErr(result[p]) \/ cmd[p] \in DataCommands))
          => session = Before.session

\* C17: the session becomes present, or is replaced, only as the last step
\* of a login or try_restore_session whose student-data GET succeeded with
\* the client, token and profile id being installed; it becomes absent only
\* by logout; no failed operation and no data command installs, replaces or
\* clears it.
C17_SessionChanges ==
    /\ [](FailuresAndReadsKeep /\ \A p \in Procs : Validating(p) => ValidatedLocals(p))
    /\ [][ChangedOnlyBy /\ ValidatedKept]_vars

\* A restore has failed validation and the installed session is still there.
C17_Witness ==
    \E p \in Procs :
       /\ cmd[p] = "try_restore_session"
       /\ pc[p] = "idle"
       /\ IsErr(result[p])
       /\ UsableRecord(Before.disk)
       /\ IsSome(Before.session)
       /\ session = Before.session
       /\ IsSome(lastLogin)


\* ------------------------------------------------------------ C18

\* The requests of one login, in order, by method and URL.
LoginOrder ==
    << <<"GET", PORTAL_URL>>, <<"GET", SSO_URL>>, <<"POST", SSO_URL>>,
       <<"GET", PORTAL_URL>>, <<"GET", PORTAL_URL \o "/api/person/profiles">>,
       <<"GET", PORTAL_URL \o STUDENT_DATA>> >>

\* The requests sent so far by the login in slot p are the first ones of
\* LoginOrder, and a login that succeeded has sent them all.
InLoginOrder(p) ==
    /\ Len(reqs[p]) <= Len(LoginOrder)
    /\ \A i \in 1..Len(reqs[p]) :
          <<reqs[p][i].method, reqs[p][i].url>> = LoginOrder[i]
    /\ (pc[p] = "idle" /\ IsOk(result[p])) => Len(reqs[p]) = Len(LoginOrder)

\* The values that input elements named name carry in the page.
ValuesInPage(html, name) ==
    {Unwrap(html[i].attr) : i \in {j \in 1..Len(html) :
        html[j].tag = "input" /\ html[j].name = name /\ IsSome(html[j].attr)}}

\* The values a form submits under the field name.
FieldValues(form, name) ==
    {form[i][2] : i \in {j \in 1..Len(form) : form[j][1] = name}}

\* The step that returns from a login sends nothing, and a step that goes
\* on sends one request at most.
AbortSendsNothing(p) ==
    (cmd[p] = "login" /\ pc[p] # "idle") =>
        IF pc'[p] = "idle" THEN reqs'[p] = reqs[p]
        ELSE /\ Len(reqs'[p]) \in {Len(reqs[p]), Len(reqs[p]) + 1}
             /\ SubSeq(reqs'[p], 1, Len(reqs[p])) = reqs[p]

\* What the step on the loaded CAS page does with its tokens.
PostFollowsTokens(p, html) ==
    LoginCasPageLoaded(p, html) =>
        IF IsOk(extract_cas_tokens(html))
        THEN /\ Len(reqs'[p]) = 3
             /\ reqs'[p][3].method = "POST"
             /\ FieldValues(Unwrap(reqs'[p][3].form), "execution")
                    \subseteq ValuesInPage(html, "execution")
             /\ FieldValues(Unwrap(reqs'[p][3].form), "execution") # {}
             /\ FieldValues(Unwrap(reqs'[p][3].form), "lt")
                    = ValuesInPage(html, "lt")
        ELSE /\ pc'[p] = "idle"
             /\ reqs'[p] = reqs[p]
             /\ result'[p] = Err("CAS execution token not found")

\* C18: the requests of a login are sent in the order portal GET, CAS page
\* GET, CAS POST, portal GET, profiles GET, student-data GET; the step that
\* fails returns without sending anything more; the POST is sent only when
\* an execution token was extracted from the CAS page, and its form carries
\* lt exactly when the page carried an lt value.
C18_LoginOrder ==
    /\ [](cmd[SerialSlot] = "login" => InLoginOrder(SerialSlot))
    /\ [][AbortSendsNothing(SerialSlot)]_vars
    /\ [][\A html \in LoginPages :
            (pc[SerialSlot] = "login_cas_page") =>
                PostFollowsTokens(SerialSlot, html)]_vars

\* A login that got through all six requests, its form carrying lt.
C18_Witness ==
    /\ cmd[SerialSlot] = "login"
    /\ pc[SerialSlot] = "idle"
    /\ IsOk(result[SerialSlot])
    /\ Len(reqs[SerialSlot]) = 6
    /\ FieldValues(Unwrap(reqs[SerialSlot][3].form), "lt") = {"LT-1"}

\* ------------------------------------------------------------ C19

\* C19: once a logout has returned, the in-memory session and the persisted
\* record stay absent until a login or try_restore_session invoked after
\* that return saves or installs a session; a login or restore in flight at
\* the return re-creates neither.
C19_LogoutIsFinal ==
    IsSome(afterLogout) => session = None /\ disk = None

\* The in-memory half alone: no session is installed after the logout.
C19_NoSessionAfterLogout ==
    IsSome(afterLogout) => session = None

\* The persisted half alone: no record exists after the logout.
C19_NoRecordAfterLogout ==
    IsSome(afterLogout) => disk = None

\* ------------------------------------------------------------ C20

\* The last settings command run was set_keep_in_tray.
LastSet == IsSome(probe) /\ Unwrap(probe).fn = "set_keep_in_tray"

\* After set_keep_in_tray succeeded the flag and the file hold the value.
SuccessSetsBoth ==
    (LastSet /\ IsOk(ProbeOutput)) =>
        /\ keep_in_tray = ProbeInput.value
        /\ settings_file = Some(SettingsText(AppSettings(ProbeInput.value)))

\* After set_keep_in_tray failed the flag is what it was before the call.
FailureKeepsFlag ==
    (LastSet /\ IsErr(ProbeOutput)) => keep_in_tray = ProbeInput.prior

\* The settings commands leave the session, the record and the commands in
\* flight alone; the session commands leave the flag and the file alone.
SettingsApart ==
    /\ SettingsStep => UNCHANGED <<session, disk, lock, pc, cmd, args, locals>>
    /\ SessionStep => UNCHANGED <<keep_in_tray, settings_file>>

\* C20: set_keep_in_tray succeeds with the flag and the settings file both
\* holding the new value, or fails with the flag at its prior value; it
\* never changes the session or the session record, and no session command
\* changes the settings.
C20_SetKeepInTray ==
    /\ [](SuccessSetsBoth /\ FailureKeepsFlag)
    /\ [][SettingsApart]_vars

\* The failure half alone.
C20_FailureKeepsFlag == FailureKeepsFlag

\* The success half and the separation from the session, which hold.
C20_SuccessAndSeparation ==
    /\ []SuccessSetsBoth
    /\ [][SettingsApart]_vars

=========================================================================
